---- MODULE Spec2Model ----
(***************************************************************************)
(* noir-metrics: the per-line classifier of analysis/file.rs               *)
(* (analyze_file) and the aggregator of analysis/project.rs                *)
(* (analyze_project, compute_totals).                                      *)
(*                                                                         *)
(* A line is a sequence of one-character strings, so that trim,            *)
(* starts_with, contains, to_lowercase and count_braces are computed on    *)
(* the characters as the Rust code computes them.  The usize counters and  *)
(* the i32 brace_depth are unbounded integers here: a file of MaxLines     *)
(* lines is far from either width.  The f64 test_code_percentage is kept   *)
(* as the exact fraction num/den.                                          *)
(***************************************************************************)
EXTENDS Integers, Sequences, FiniteSets, TLC

(***************************************************************************)
(* Bounds of the model.                                                    *)
(***************************************************************************)
\* Lines read from the file of a single-file project.
MaxLines == 3
\* Lines read from each file of a project with several files.
MaxLinesMulti == 2
\* Lines read from each file of a project with more than two files.
MaxLinesPaths == 1
\* Lines read from each file when the binary runs the analysis.
MaxLinesRun == 2

(***************************************************************************)
(* The lines a file is made of.                                            *)
(***************************************************************************)
L_empty == <<>>
\* "  "
L_spaces == <<" ", " ">>
\* "// x"
L_note == <<"/", "/", " ", "x">>
\* "// TODO FIXME"
L_todo2 == <<"/", "/", " ", "T", "O", "D", "O", " ", "F", "I", "X", "M", "E">>
\* "// Todo"
L_todo_lc == <<"/", "/", " ", "T", "o", "d", "o">>
\* "/*"
L_open == <<"/", "*">>
\* "/* TODO"
L_open_todo == <<"/", "*", " ", "T", "O", "D", "O">>
\* "*/"
L_close == <<"*", "/">>
\* "/* x */"
L_inline_block == <<"/", "*", " ", "x", " ", "*", "/">>
\* "#[test]"
L_attr == <<"#", "[", "t", "e", "s", "t", "]">>
\* "fn f() {"
L_fn == <<"f", "n", " ", "f", "(", ")", " ", "{">>
\* "pub fn g() {"
L_pub_fn == <<"p", "u", "b", " ", "f", "n", " ", "g", "(", ")", " ", "{">>
\* "fn main() {"
L_main == <<"f", "n", " ", "m", "a", "i", "n", "(", ")", " ", "{">>
\* "fn h()"
L_fn_nobrace == <<"f", "n", " ", "h", "(", ")">>
\* "{"
L_lbrace == <<"{">>
\* "}"
L_rbrace == <<"}">>
\* "x;"
L_stmt == <<"x", ";">>
\* "x; // TODO"
L_stmt_todo == <<"x", ";", " ", "/", "/", " ", "T", "O", "D", "O">>
\* "  fn k() {}"
L_fn_oneline == <<" ", " ", "f", "n", " ", "k", "(", ")", " ", "{", "}">>

\* "pub fn main() {"
L_pub_main ==
    <<"p", "u", "b", " ", "f", "n", " ", "m", "a", "i", "n", "(", ")", " ", "{">>
\* "fn main () {"
L_main_spaced == <<"f", "n", " ", "m", "a", "i", "n", " ", "(", ")", " ", "{">>
\* "}}"
L_rbrace2 == <<"}", "}">>
\* "}}}"
L_rbrace3 == <<"}", "}", "}">>

Vocabulary ==
    { L_empty, L_spaces, L_note, L_todo2, L_todo_lc, L_open, L_open_todo,
      L_close, L_inline_block, L_attr, L_fn, L_pub_fn, L_main, L_fn_nobrace,
      L_lbrace, L_rbrace, L_stmt, L_stmt_todo, L_fn_oneline }

\* Every line a file of this model may hold.
Lines == Vocabulary \cup { L_pub_main, L_main_spaced, L_rbrace2, L_rbrace3 }

\* The lines of the files of a project with several files.
SmallVocabulary ==
    { L_empty, L_todo2, L_open, L_attr, L_fn, L_rbrace, L_stmt_todo }

(***************************************************************************)
(* str: trim, starts_with, contains, to_lowercase.                         *)
(***************************************************************************)
WhiteSpace == {" ", "\t"}

RECURSIVE trim_start(_)
trim_start(s) ==
    IF s # <<>> /\ Head(s) \in WhiteSpace THEN trim_start(Tail(s)) ELSE s

RECURSIVE trim_end(_)
trim_end(s) ==
    IF s # <<>> /\ s[Len(s)] \in WhiteSpace
    THEN trim_end(SubSeq(s, 1, Len(s) - 1))
    ELSE s

trim(s) == trim_end(trim_start(s))

starts_with(s, p) == Len(p) <= Len(s) /\ SubSeq(s, 1, Len(p)) = p

contains(s, p) ==
    \E i \in 1..(Len(s) - Len(p) + 1) : SubSeq(s, i, i + Len(p) - 1) = p

UpperCase ==
    <<"A", "B", "C", "D", "E", "F", "G", "H", "I", "J", "K", "L", "M",
      "N", "O", "P", "Q", "R", "S", "T", "U", "V", "W", "X", "Y", "Z">>
LowerCase ==
    <<"a", "b", "c", "d", "e", "f", "g", "h", "i", "j", "k", "l", "m",
      "n", "o", "p", "q", "r", "s", "t", "u", "v", "w", "x", "y", "z">>

lower_char(c) ==
    IF \E i \in 1..Len(UpperCase) : UpperCase[i] = c
    THEN LowerCase[CHOOSE i \in 1..Len(UpperCase) : UpperCase[i] = c]
    ELSE c

to_lowercase(s) == [i \in 1..Len(s) |-> lower_char(s[i])]

(***************************************************************************)
(* The markers analyze_file looks for.                                     *)
(***************************************************************************)
BlockOpen == <<"/", "*">>
BlockClose == <<"*", "/">>
LineComment == <<"/", "/">>
TestAttr == <<"#", "[", "t", "e", "s", "t">>
FnPrefix == <<"f", "n", " ">>
PubFnPrefix == <<"p", "u", "b", " ", "f", "n", " ">>
FnMain == <<"f", "n", " ", "m", "a", "i", "n", "(">>
PubFnMain == <<"p", "u", "b", " ", "f", "n", " ", "m", "a", "i", "n", "(">>
Todo == <<"t", "o", "d", "o">>
Fixme == <<"f", "i", "x", "m", "e">>

\* count_braces: `{` as +1, `}` as -1.
RECURSIVE count_braces(_)
count_braces(line) ==
    IF line = <<>> THEN 0
    ELSE (CASE Head(line) = "{" -> 1
            [] Head(line) = "}" -> -1
            [] OTHER -> 0) + count_braces(Tail(line))

\* Variant of line_has_todo that skips to_lowercase.
line_has_todo_case_sensitive(s) ==
    contains(s, Todo) \/ contains(s, Fixme)

\* line_has_todo: the lower-cased text contains "todo" or "fixme".
line_has_todo(s) ==
    LET lower == to_lowercase(s)
    IN  contains(lower, Todo) \/ contains(lower, Fixme)

(***************************************************************************)
(* analyze_file: the local variables of the scan, and what one line does   *)
(* to them.                                                                *)
(***************************************************************************)
\* file.rs:84-102
ScanInit ==
    [ total_lines |-> 0, blank_lines |-> 0, comment_lines |-> 0,
      code_lines |-> 0, test_functions |-> 0, test_lines |-> 0,
      non_test_lines |-> 0, functions |-> 0, pub_functions |-> 0,
      non_test_functions |-> 0, has_main |-> FALSE, todo_count |-> 0,
      pending_test_attr |-> FALSE, inside_test |-> FALSE, brace_depth |-> 0,
      in_block_comment |-> FALSE ]

\* file.rs:106
count_line(s) == [s EXCEPT !.total_lines = @ + 1]

\* Variant of block_comment_line that tests for a blank line first.
block_comment_line_blank_first(s, trimmed) ==
    IF trimmed = <<>>
    THEN [s EXCEPT !.blank_lines = @ + 1]
    ELSE [s EXCEPT !.comment_lines = @ + 1,
                   !.todo_count = IF line_has_todo(trimmed) THEN @ + 1 ELSE @,
                   !.in_block_comment =
                       IF contains(trimmed, BlockClose) THEN FALSE ELSE @]

\* Variant of block_comment_line that counts the braces of the line.
block_comment_line_counts_braces(s, trimmed) ==
    [s EXCEPT !.comment_lines = @ + 1,
              !.todo_count = IF line_has_todo(trimmed) THEN @ + 1 ELSE @,
              !.in_block_comment =
                  IF contains(trimmed, BlockClose) THEN FALSE ELSE @,
              !.brace_depth = @ + count_braces(trimmed)]

\* file.rs:110-121: a line read while in_block_comment is set.
block_comment_line(s, trimmed) ==
    [s EXCEPT !.comment_lines = @ + 1,
              !.todo_count = IF line_has_todo(trimmed) THEN @ + 1 ELSE @,
              !.in_block_comment =
                  IF contains(trimmed, BlockClose) THEN FALSE ELSE @]

\* Variant of block_comment_start that does not count the opening line.
block_comment_start_uncounted(s, trimmed) ==
    [s EXCEPT !.todo_count = IF line_has_todo(trimmed) THEN @ + 1 ELSE @,
              !.in_block_comment =
                  IF ~contains(trimmed, BlockClose) THEN TRUE ELSE @]

\* file.rs:123-134: a line whose trimmed text starts with "/*".
block_comment_start(s, trimmed) ==
    [s EXCEPT !.comment_lines = @ + 1,
              !.todo_count = IF line_has_todo(trimmed) THEN @ + 1 ELSE @,
              !.in_block_comment =
                  IF ~contains(trimmed, BlockClose) THEN TRUE ELSE @]

\* file.rs:138
is_test_attr_line(trimmed) == starts_with(trimmed, TestAttr)

\* Variant of test_attr_line in which any other code line that is no
\* declaration drops the pending annotation.
test_attr_line_adjacent(s, trimmed) ==
    IF is_test_attr_line(trimmed)
    THEN [s EXCEPT !.pending_test_attr = TRUE]
    ELSE IF /\ trimmed # <<>>
            /\ ~starts_with(trimmed, LineComment)
            /\ ~starts_with(trimmed, FnPrefix)
            /\ ~starts_with(trimmed, PubFnPrefix)
         THEN [s EXCEPT !.pending_test_attr = FALSE]
         ELSE s

\* Variant of test_attr_line that counts the test function at its
\* annotation.
test_attr_line_counts_test(s, trimmed) ==
    IF is_test_attr_line(trimmed)
    THEN [s EXCEPT !.pending_test_attr = TRUE,
                   !.test_functions = @ + 1]
    ELSE s

\* file.rs:136-141
test_attr_line(s, trimmed) ==
    IF is_test_attr_line(trimmed)
    THEN [s EXCEPT !.pending_test_attr = TRUE]
    ELSE s

\* file.rs:143
is_fn_line(trimmed) ==
    starts_with(trimmed, FnPrefix) \/ starts_with(trimmed, PubFnPrefix)

\* file.rs:144
is_pub_fn(trimmed) == starts_with(trimmed, PubFnPrefix)

\* Variant of the test for main that does not ask for the parenthesis.
is_main_line_without_paren(trimmed) ==
    \/ starts_with(trimmed, FnPrefix \o <<"m", "a", "i", "n">>)
    \/ starts_with(trimmed, PubFnPrefix \o <<"m", "a", "i", "n">>)

\* file.rs:161
is_main_line(trimmed) ==
    starts_with(trimmed, FnMain) \/ starts_with(trimmed, PubFnMain)

\* Variant of fn_kind that counts a test function as a non-test one too.
fn_kind_counts_both(s) ==
    IF s.pending_test_attr
    THEN [s EXCEPT !.test_functions = @ + 1,
                   !.non_test_functions = @ + 1,
                   !.inside_test = TRUE,
                   !.pending_test_attr = FALSE,
                   !.brace_depth = 0]
    ELSE [s EXCEPT !.non_test_functions = @ + 1]

\* Variant of fn_kind that leaves the annotation pending.
fn_kind_keeps_pending(s) ==
    IF s.pending_test_attr
    THEN [s EXCEPT !.test_functions = @ + 1,
                   !.inside_test = TRUE,
                   !.brace_depth = 0]
    ELSE [s EXCEPT !.non_test_functions = @ + 1]

\* file.rs:152-159: the declaration consumes a pending annotation, or not.
fn_kind(s) ==
    IF s.pending_test_attr
    THEN [s EXCEPT !.test_functions = @ + 1,
                   !.inside_test = TRUE,
                   !.pending_test_attr = FALSE,
                   !.brace_depth = 0]
    ELSE [s EXCEPT !.non_test_functions = @ + 1]

\* file.rs:146-164
fn_line(s, trimmed) ==
    IF is_fn_line(trimmed)
    THEN LET counted ==
                 [s EXCEPT !.functions = @ + 1,
                           !.pub_functions =
                               IF is_pub_fn(trimmed) THEN @ + 1 ELSE @]
             kinded == fn_kind(counted)
         IN  [kinded EXCEPT !.has_main = @ \/ is_main_line(trimmed)]
    ELSE s

\* Variant of code_line that drops the else branch.
code_line_drops_non_test(s, attr_line) ==
    [s EXCEPT !.code_lines = @ + 1,
              !.test_lines =
                  IF s.inside_test \/ attr_line THEN @ + 1 ELSE @]

\* Variant of code_line that looks at inside_test alone.
code_line_ignores_attr(s, attr_line) ==
    [s EXCEPT !.code_lines = @ + 1,
              !.test_lines = IF s.inside_test THEN @ + 1 ELSE @,
              !.non_test_lines = IF s.inside_test THEN @ ELSE @ + 1]

\* file.rs:175-181: a code line goes to test_lines or to non_test_lines.
code_line(s, attr_line) ==
    [s EXCEPT !.code_lines = @ + 1,
              !.test_lines =
                  IF s.inside_test \/ attr_line THEN @ + 1 ELSE @,
              !.non_test_lines =
                  IF s.inside_test \/ attr_line THEN @ ELSE @ + 1]

\* file.rs:168-173
line_comment(s, trimmed) ==
    [s EXCEPT !.comment_lines = @ + 1,
              !.todo_count = IF line_has_todo(trimmed) THEN @ + 1 ELSE @]

\* Variant of classify that looks for TODO/FIXME on code lines as well.
classify_todo_everywhere(s, trimmed) ==
    IF trimmed = <<>>
    THEN [s EXCEPT !.blank_lines = @ + 1]
    ELSE IF starts_with(trimmed, LineComment)
         THEN line_comment(s, trimmed)
         ELSE [code_line(s, is_test_attr_line(trimmed))
                  EXCEPT !.todo_count =
                      IF line_has_todo(trimmed) THEN @ + 1 ELSE @]

\* file.rs:166-182
classify(s, trimmed) ==
    IF trimmed = <<>>
    THEN [s EXCEPT !.blank_lines = @ + 1]
    ELSE IF starts_with(trimmed, LineComment)
         THEN line_comment(s, trimmed)
         ELSE code_line(s, is_test_attr_line(trimmed))

\* Variant of update_braces that ends the test body at any depth of zero or
\* below.
update_braces_at_or_below_zero(s, line) ==
    LET depth == s.brace_depth + count_braces(line)
    IN  [s EXCEPT !.brace_depth = depth,
                  !.inside_test = IF @ /\ depth <= 0 THEN FALSE ELSE @]

\* file.rs:184-189: the braces of the raw line; the test body ends at depth 0.
update_braces(s, line) ==
    LET depth == s.brace_depth + count_braces(line)
    IN  [s EXCEPT !.brace_depth = depth,
                  !.inside_test = IF @ /\ depth = 0 THEN FALSE ELSE @]

\* file.rs:136-189: a line that is neither in nor opening a block comment.
ordinary_line(s, line) ==
    LET trimmed == trim(line)
    IN  update_braces(
            classify(fn_line(test_attr_line(s, trimmed), trimmed), trimmed),
            line)

(***************************************************************************)
(* Paths.  A path is the sequence of its components below the project      *)
(* root, each component a sequence of characters; the root itself is <<>>. *)
(* Every path WalkDir yields lies under the root, so strip_prefix          *)
(* (file.rs:192-195) always succeeds and the relative path is the path     *)
(* kept here.                                                              *)
(***************************************************************************)
N_src == <<"s", "r", "c">>
N_tests == <<"t", "e", "s", "t", "s">>
N_test == <<"t", "e", "s", "t">>
N_main_nr == <<"m", "a", "i", "n", ".", "n", "r">>
N_util_nr == <<"u", "t", "i", "l", ".", "n", "r">>
N_foo_test_nr == <<"f", "o", "o", "_", "t", "e", "s", "t", ".", "n", "r">>
N_not_noir_txt == <<"n", "o", "t", "_", "n", "o", "i", "r", ".", "t", "x", "t">>
N_manifest == <<"N", "a", "r", "g", "o", ".", "t", "o", "m", "l">>
N_gen_nr == <<"g", "e", "n", ".", "n", "r">>
N_latest_nr == <<"l", "a", "t", "e", "s", "t", ".", "n", "r">>
N_dot_nr == <<".", "n", "r">>
TestSuffix == <<"_", "t", "e", "s", "t", ".", "n", "r">>
NrExt == <<"n", "r">>

File(path) == [path |-> path, is_file |-> TRUE]
Dir(path) == [path |-> path, is_file |-> FALSE]

\* A root without a manifest.
TreeNoManifest == { Dir(<<N_src>>), File(<<N_src, N_main_nr>>) }
\* No .nr file: a directory named gen.nr is not one.
\* nor is a file named .nr, which has no extension.
TreeEmpty == { File(<<N_manifest>>), Dir(<<N_gen_nr>>),
               File(<<N_gen_nr, N_not_noir_txt>>), File(<<N_dot_nr>>) }
TreeSingle == { File(<<N_manifest>>), Dir(<<N_src>>),
                File(<<N_src, N_main_nr>>), File(<<N_src, N_not_noir_txt>>) }
TreeTwo == { File(<<N_manifest>>), Dir(<<N_src>>), Dir(<<N_src, N_tests>>),
             File(<<N_src, N_tests, N_util_nr>>), File(<<N_src, N_main_nr>>) }
\* Three files: one named *_test.nr, one whose name only ends in test.nr, one
\* under a directory named test.
TreePaths == { File(<<N_manifest>>), Dir(<<N_src>>),
               File(<<N_src, N_foo_test_nr>>), File(<<N_src, N_latest_nr>>),
               Dir(<<N_test>>), File(<<N_test, N_main_nr>>) }

Trees == { TreeNoManifest, TreeEmpty, TreeSingle, TreeTwo, TreePaths }

ends_with(s, p) ==
    Len(p) <= Len(s) /\ SubSeq(s, Len(s) - Len(p) + 1, Len(s)) = p

\* Path::file_name
file_name(path) == path[Len(path)]

NoExtension == <<"">>

\* Path::extension: the text after the last "." of the file name; none when
\* the name has no "." or only a leading one.
extension(path) ==
    LET name == file_name(path)
        dots == { i \in 1..Len(name) : name[i] = "." }
    IN  IF dots = {} \/ dots = {1}
        THEN NoExtension
        ELSE LET last == CHOOSE i \in dots : \A j \in dots : j <= i
             IN  SubSeq(name, last + 1, Len(name))

\* project.rs:59-64
is_nr_file(path) == extension(path) = NrExt

\* is_test_file that looks for "test" anywhere in a component or in the name.
is_test_file_substring(rel_path) ==
    \/ \E i \in 1..Len(rel_path) : contains(rel_path[i], N_test)

\* file.rs:243-258
is_test_file(rel_path) ==
    \/ \E i \in 1..Len(rel_path) : rel_path[i] \in { N_tests, N_test }
    \/ ends_with(file_name(rel_path), TestSuffix)

\* The characters of the paths in the order of their bytes.
ByteOrder == <<".">> \o UpperCase \o <<"_">> \o LowerCase
byte(c) == CHOOSE i \in 1..Len(ByteOrder) : ByteOrder[i] = c

\* Ord of two sequences given the order of their elements: the first
\* difference decides, and a proper prefix is less.
RECURSIVE component_less(_, _)
component_less(a, b) ==
    IF b = <<>> THEN FALSE
    ELSE IF a = <<>> THEN TRUE
    ELSE IF Head(a) # Head(b) THEN byte(Head(a)) < byte(Head(b))
    ELSE component_less(Tail(a), Tail(b))

\* Ord for PathBuf compares the components in turn.
RECURSIVE path_less(_, _)
path_less(p, q) ==
    IF q = <<>> THEN FALSE
    ELSE IF p = <<>> THEN TRUE
    ELSE IF Head(p) # Head(q) THEN component_less(Head(p), Head(q))
    ELSE path_less(Tail(p), Tail(q))

\* WalkDir yields every entry once, a directory before what it holds; the
\* order among siblings is the file system's.
WalkOrders(entries) ==
    { w \in [1..Cardinality(entries) -> entries] :
        /\ \A i, j \in DOMAIN w : i # j => w[i] # w[j]
        /\ \A i, j \in DOMAIN w :
               (/\ ~w[i].is_file
                /\ Len(w[i].path) < Len(w[j].path)
                /\ SubSeq(w[j].path, 1, Len(w[i].path)) = w[i].path) => i < j }

\* project.rs:46-52: the .nr files among the entries, in walk order.
RECURSIVE collect_nr(_)
collect_nr(walk) ==
    IF walk = <<>> THEN <<>>
    ELSE LET entry == Head(walk)
         IN  (IF entry.is_file /\ is_nr_file(entry.path)
              THEN <<entry.path>> ELSE <<>>) \o collect_nr(Tail(walk))

\* nr_files that returns the files in the order of the walk.
nr_files_unsorted(walk) == collect_nr(walk)

\* project.rs:43-56
nr_files_of(walk) == SortSeq(collect_nr(walk), path_less)

(***************************************************************************)
(* FileMetrics, ProjectTotals, MetricsReport.                              *)
(***************************************************************************)
\* Variant of file_metrics that counts the empty text after the last line
\* break as one more blank line, as a split on "\n" would.
file_metrics_counts_tail(s, rel_path) ==
    [ path |-> rel_path,
      is_test_file |-> is_test_file(rel_path),
      total_lines |-> s.total_lines + 1,
      blank_lines |-> s.blank_lines + 1,
      comment_lines |-> s.comment_lines,
      code_lines |-> s.code_lines,
      test_functions |-> s.test_functions,
      test_lines |-> s.test_lines,
      non_test_lines |-> s.non_test_lines,
      functions |-> s.functions,
      pub_functions |-> s.pub_functions,
      non_test_functions |-> s.non_test_functions,
      has_main |-> s.has_main,
      todo_count |-> s.todo_count ]

\* file.rs:192-214
file_metrics(s, rel_path) ==
    [ path |-> rel_path,
      is_test_file |-> is_test_file(rel_path),
      total_lines |-> s.total_lines,
      blank_lines |-> s.blank_lines,
      comment_lines |-> s.comment_lines,
      code_lines |-> s.code_lines,
      test_functions |-> s.test_functions,
      test_lines |-> s.test_lines,
      non_test_lines |-> s.non_test_lines,
      functions |-> s.functions,
      pub_functions |-> s.pub_functions,
      non_test_functions |-> s.non_test_functions,
      has_main |-> s.has_main,
      todo_count |-> s.todo_count ]

\* The f64 0.0 and the f64 quotient (a / b) * 100.0, as exact fractions.
ZeroPercent == [num |-> 0, den |-> 1]
percent_of(a, b) == [num |-> a * 100, den |-> b]

\* project.rs:9-36 and 72: ProjectTotals::default()
TotalsDefault ==
    [ files |-> 0, total_lines |-> 0, blank_lines |-> 0, comment_lines |-> 0,
      code_lines |-> 0, test_functions |-> 0, test_lines |-> 0,
      non_test_lines |-> 0, test_code_percentage |-> ZeroPercent ]

\* Variant of add_file that leaves test_lines out.
add_file_skips_test_lines(totals, fm) ==
    [totals EXCEPT !.total_lines = @ + fm.total_lines,
                   !.blank_lines = @ + fm.blank_lines,
                   !.comment_lines = @ + fm.comment_lines,
                   !.code_lines = @ + fm.code_lines,
                   !.test_functions = @ + fm.test_functions,
                   !.non_test_lines = @ + fm.non_test_lines]

\* Variant of add_file that assigns blank_lines where it should add.
add_file_assigns_blank(totals, fm) ==
    [totals EXCEPT !.total_lines = @ + fm.total_lines,
                   !.blank_lines = fm.blank_lines,
                   !.comment_lines = @ + fm.comment_lines,
                   !.code_lines = @ + fm.code_lines,
                   !.test_functions = @ + fm.test_functions,
                   !.test_lines = @ + fm.test_lines,
                   !.non_test_lines = @ + fm.non_test_lines]

\* project.rs:77-83: what one FileMetrics adds to the totals.
add_file(totals, fm) ==
    [totals EXCEPT !.total_lines = @ + fm.total_lines,
                   !.blank_lines = @ + fm.blank_lines,
                   !.comment_lines = @ + fm.comment_lines,
                   !.code_lines = @ + fm.code_lines,
                   !.test_functions = @ + fm.test_functions,
                   !.test_lines = @ + fm.test_lines,
                   !.non_test_lines = @ + fm.non_test_lines]

\* project.rs:76-84: the loop over the files, from the totals so far.
RECURSIVE sum_files(_, _)
sum_files(totals, files) ==
    IF files = <<>> THEN totals
    ELSE sum_files(add_file(totals, Head(files)), Tail(files))

\* Variant of test_code_percentage without the guard on code_lines.
test_code_percentage_unguarded(totals) ==
    percent_of(totals.test_lines, totals.code_lines)

\* Variant of test_code_percentage that divides by the other code lines.
test_code_percentage_of_non_test(totals) ==
    IF totals.code_lines = 0
    THEN ZeroPercent
    ELSE percent_of(totals.test_lines, totals.non_test_lines)

\* project.rs:86-90
test_code_percentage(totals) ==
    IF totals.code_lines = 0
    THEN ZeroPercent
    ELSE percent_of(totals.test_lines, totals.code_lines)

\* project.rs:71-93
compute_totals(files) ==
    LET counted == [TotalsDefault EXCEPT !.files = Len(files)]
        summed == sum_files(counted, files)
    IN  [summed EXCEPT !.test_code_percentage = test_code_percentage(summed)]

(***************************************************************************)
(* The program: analyze_path on a project tree.                            *)
(***************************************************************************)
VARIABLES
    pc,             \* where analyze_path stands
    tree,           \* the entries under the project root
    nr_files,       \* analyze_project: the sorted .nr paths
    file_index,     \* analyze_project: the file the loop is at
    lines,          \* the lines reader.lines() has yielded for that file
    scan,           \* analyze_file: its local variables
    files_metrics,  \* analyze_project: the FileMetrics pushed so far
    report,         \* the MetricsReport returned: <<>> or <<report>>
    error,          \* the anyhow::Error returned: <<>> or <<error>>
    cli,            \* run: the parsed Cli, <<>> when analyze_path is called
                    \* as a library function
    format,         \* run: the resolved OutputFormat, <<>> or <<format>>
    written         \* what the process has written: the streams, in order

vars ==
    <<pc, tree, nr_files, file_index, lines, scan, files_metrics, report,
      error, cli, format, written>>

\* run leaves these alone while analyze_path works.
run_vars == <<cli, format, written>>

\* What an error carries: where it arose and the paths its message names.
\* bail! in from_root formats the root into the message; an io::Error
\* converted by ? carries the message of the operating system alone.
NoManifestError == [source |-> "from_root", names |-> { <<>> }]
IoError(source) == [source |-> source, names |-> {}]

Init ==
    /\ pc = "from_root"
    /\ tree \in Trees
    /\ nr_files = <<>>
    /\ file_index = 1
    /\ lines = <<>>
    /\ scan = ScanInit
    /\ files_metrics = <<>>
    /\ report = <<>>
    /\ error = <<>>
    /\ cli = <<>>
    /\ format = <<>>
    /\ written = <<>>

\* project.rs:21-38: the root must hold a Nargo.toml.
FromRoot ==
    /\ pc = "from_root"
    /\ pc' = IF File(<<N_manifest>>) \in tree THEN "nr_files" ELSE "failed"
    /\ error' = IF File(<<N_manifest>>) \in tree
                THEN error ELSE <<NoManifestError>>
    /\ UNCHANGED <<tree, nr_files, file_index, lines, scan, files_metrics,
                   report>>
    /\ UNCHANGED run_vars

\* project.rs:43-56 and analysis/project.rs:53
NrFiles ==
    /\ pc = "nr_files"
    /\ \E walk \in WalkOrders(tree) : nr_files' = nr_files_of(walk)
    /\ pc' = "loop"
    /\ UNCHANGED <<tree, file_index, lines, scan, files_metrics, report, error>>
    /\ UNCHANGED run_vars

\* OpenFile when the locals of analyze_file outlive the call.
OpenFile_keeps_locals ==
    /\ pc = "loop"
    /\ file_index <= Len(nr_files)
    /\ scan' = scan
    /\ lines' = <<>>
    /\ pc' = "scan"
    /\ UNCHANGED <<tree, nr_files, file_index, files_metrics, report, error>>
    /\ UNCHANGED run_vars

\* analysis/project.rs:56-57 and file.rs:81-102: the next file is opened
\* and the locals of analyze_file start afresh.
OpenFile ==
    /\ pc = "loop"
    /\ file_index <= Len(nr_files)
    /\ scan' = ScanInit
    /\ lines' = <<>>
    /\ pc' = "scan"
    /\ UNCHANGED <<tree, nr_files, file_index, files_metrics, report, error>>
    /\ UNCHANGED run_vars

\* analysis/project.rs:57 and file.rs:81: File::open fails; ? returns the
\* error from analyze_file and from analyze_project, whose locals are dropped.
OpenFails ==
    /\ pc = "loop"
    /\ file_index <= Len(nr_files)
    /\ error' = <<IoError("open")>>
    /\ files_metrics' = <<>>
    /\ lines' = <<>>
    /\ scan' = ScanInit
    /\ pc' = "failed"
    /\ UNCHANGED <<tree, nr_files, file_index, report>>
    /\ UNCHANGED run_vars

\* The files this model reads: a project of one file holds up to MaxLines
\* lines of Vocabulary or is one of the scenario files; the files of a
\* project of two hold up to MaxLinesMulti lines of SmallVocabulary, those of
\* a larger one up to MaxLinesPaths; under run every file holds up to
\* MaxLinesRun lines of SmallVocabulary.
Statements == { L_stmt, L_stmt_todo }
\* A test function and a plain function written one statement per line: the
\* lines each place of the file may hold.
ScenarioBodies ==
    << {L_attr}, {L_fn}, Statements, Statements, Statements, {L_rbrace},
       {L_fn, L_main}, Statements, Statements, {L_rbrace} >>
\* The same two functions with empty bodies.
ScenarioEmptyBodies ==
    << {L_attr}, {L_fn}, {L_rbrace}, {L_fn, L_main}, {L_rbrace} >>

\* ls is the start of a file of the given shape, and the whole of one.
StartsFile(ls, shape) ==
    Len(ls) <= Len(shape) /\ \A i \in 1..Len(ls) : ls[i] \in shape[i]
IsFile(ls, shape) == Len(ls) = Len(shape) /\ StartsFile(ls, shape)

\* Declarations of main in their spellings, inside and outside a block
\* comment.
ScenarioMain ==
    << {L_open, L_attr}, {L_pub_main, L_main_spaced, L_close},
       {L_pub_main, L_main_spaced, L_main}, {L_rbrace} >>

\* Two annotations, or an annotation and a comment, before a test function
\* of one line, followed by a function without annotation.
ScenarioAnnotations ==
    << {L_attr}, {L_attr, L_note}, {L_fn_oneline}, {L_pub_fn}, {L_rbrace} >>

\* A test function closed by more braces than it opened, and a function
\* without annotation after it.
ScenarioUnbalanced ==
    << {L_attr}, {L_fn}, {L_rbrace2, L_rbrace3}, {L_pub_fn}, {L_stmt},
       {L_rbrace} >>

CanRead(line) ==
    IF cli # <<>>
    THEN line \in SmallVocabulary /\ Len(lines) < MaxLinesRun
    ELSE IF Len(nr_files) = 1
    THEN \/ Len(lines) < MaxLines /\ line \in Vocabulary
         \/ StartsFile(Append(lines, line), ScenarioBodies)
         \/ StartsFile(Append(lines, line), ScenarioEmptyBodies)
         \/ StartsFile(Append(lines, line), ScenarioMain)
         \/ StartsFile(Append(lines, line), ScenarioAnnotations)
         \/ StartsFile(Append(lines, line), ScenarioUnbalanced)
    ELSE /\ line \in SmallVocabulary
         /\ Len(lines) <
                (IF Len(nr_files) = 2 THEN MaxLinesMulti ELSE MaxLinesPaths)

\* file.rs:104-105: reader.lines() yields an error (the read fails, or the
\* bytes are not UTF-8); ? returns it as OpenFails does.
ReadFails ==
    /\ pc = "scan"
    /\ error' = <<IoError("read")>>
    /\ files_metrics' = <<>>
    /\ lines' = <<>>
    /\ scan' = ScanInit
    /\ pc' = "failed"
    /\ UNCHANGED <<tree, nr_files, file_index, report>>
    /\ UNCHANGED run_vars

\* file.rs:104-121: a line arrives while in_block_comment is set.
ReadInBlockComment ==
    /\ pc = "scan"
    /\ scan.in_block_comment
    /\ \E line \in Lines :
           /\ CanRead(line)
           /\ lines' = Append(lines, line)
           /\ scan' = block_comment_line(count_line(scan), trim(line))
    /\ UNCHANGED <<pc, tree, nr_files, file_index, files_metrics, report,
                   error>>
    /\ UNCHANGED run_vars

\* file.rs:104-108 and 123-134: a line starting with "/*" arrives.
ReadBlockCommentStart ==
    /\ pc = "scan"
    /\ ~scan.in_block_comment
    /\ \E line \in Lines :
           /\ CanRead(line)
           /\ starts_with(trim(line), BlockOpen)
           /\ lines' = Append(lines, line)
           /\ scan' = block_comment_start(count_line(scan), trim(line))
    /\ UNCHANGED <<pc, tree, nr_files, file_index, files_metrics, report,
                   error>>
    /\ UNCHANGED run_vars

\* file.rs:104-108 and 136-189: any other line arrives.
ReadOrdinaryLine ==
    /\ pc = "scan"
    /\ ~scan.in_block_comment
    /\ \E line \in Lines :
           /\ CanRead(line)
           /\ ~starts_with(trim(line), BlockOpen)
           /\ lines' = Append(lines, line)
           /\ scan' = ordinary_line(count_line(scan), line)
    /\ UNCHANGED <<pc, tree, nr_files, file_index, files_metrics, report,
                   error>>
    /\ UNCHANGED run_vars

\* EndOfFile when unbalanced braces or an open block comment are an error.
EndOfFile_requires_balanced ==
    /\ pc = "scan"
    /\ scan.brace_depth >= 0
    /\ ~scan.in_block_comment
    /\ files_metrics' =
           Append(files_metrics, file_metrics(scan, nr_files[file_index]))
    /\ file_index' = file_index + 1
    /\ pc' = "loop"
    /\ UNCHANGED <<tree, nr_files, lines, scan, report, error>>
    /\ UNCHANGED run_vars

\* file.rs:190-214 and analysis/project.rs:57-58: the reader is exhausted,
\* analyze_file returns Ok and its FileMetrics is pushed.
EndOfFile ==
    /\ pc = "scan"
    /\ files_metrics' =
           Append(files_metrics, file_metrics(scan, nr_files[file_index]))
    /\ file_index' = file_index + 1
    /\ pc' = "loop"
    /\ UNCHANGED <<tree, nr_files, lines, scan, report, error>>
    /\ UNCHANGED run_vars

\* analysis/project.rs:61-67
Finish ==
    /\ pc = "loop"
    /\ file_index > Len(nr_files)
    /\ report' = << [ project_root |-> <<>>,
                      totals |-> compute_totals(files_metrics),
                      files |-> files_metrics ] >>
    /\ pc' = "done"
    /\ UNCHANGED <<tree, nr_files, file_index, lines, scan, files_metrics,
                   error>>
    /\ UNCHANGED run_vars

Next ==
    \/ FromRoot
    \/ NrFiles
    \/ OpenFile
    \/ OpenFails
    \/ ReadFails
    \/ ReadInBlockComment
    \/ ReadBlockCommentStart
    \/ ReadOrdinaryLine
    \/ EndOfFile
    \/ Finish

Spec == Init /\ [][Next]_vars

(***************************************************************************)
(* The binary: run parses the command line, validates the output flags,    *)
(* calls analyze_path and writes the report (lib.rs:67-102).               *)
(***************************************************************************)
\* cli.rs:9-37: Option values are <<>> or <<value>>; project_root is the
\* root of the tree.
Human == "Human"
Json == "Json"
OutPath == <<"o", "u", "t", ".", "j", "s", "o", "n">>
Args ==
    [ format : { <<>>, <<Human>>, <<Json>> },
      json : BOOLEAN,
      output : { <<>>, <<OutPath>> },
      verbose : BOOLEAN ]

\* The projects the binary is run on.
RunTrees == { TreeNoManifest, TreeEmpty, TreeSingle }

InitRun ==
    /\ pc = "run"
    /\ tree \in RunTrees
    /\ nr_files = <<>>
    /\ file_index = 1
    /\ lines = <<>>
    /\ scan = ScanInit
    /\ files_metrics = <<>>
    /\ report = <<>>
    /\ error = <<>>
    /\ cli \in { <<args>> : args \in Args }
    /\ format = <<>>
    /\ written = <<>>

\* bail! in run: the message names no path.
RunError == [source |-> "run", names |-> {}]

\* lib.rs:70-75: the match on (args.format, args.json); <<>> where it bails.
resolve_format(args) ==
    IF args.format # <<>> /\ ~args.json THEN args.format
    ELSE IF args.format = <<>> /\ args.json THEN <<Json>>
    ELSE IF args.format # <<>> /\ args.json THEN <<>>
    ELSE <<Human>>

\* Variant of output_without_json that lets --output pass.
output_unchecked(args, resolved) == FALSE

\* lib.rs:77: --output with a format that is not JSON.
output_without_json(args, resolved) ==
    args.output # <<>> /\ resolved # <<Json>>

\* lib.rs:68-91: from the parsed arguments to the call of analyze_path.
RunValidate ==
    /\ pc = "run"
    /\ LET args == cli[1]
           resolved == resolve_format(args)
       IN  IF resolved = <<>> \/ output_without_json(args, resolved)
           THEN /\ error' = <<RunError>>
                /\ pc' = "failed"
                /\ UNCHANGED <<format, written>>
           ELSE /\ format' = resolved
                /\ written' = IF args.verbose THEN <<"stderr">> ELSE written
                /\ pc' = "from_root"
                /\ error' = error
    /\ UNCHANGED <<tree, nr_files, file_index, lines, scan, files_metrics,
                   report, cli>>

\* lib.rs:95-101, output.rs:26-98: the report is written, as JSON to the
\* file of --output or to stdout, or as the summary to stdout; a failed
\* write is returned as the error of run.
RunOutput ==
    /\ pc = "done"
    /\ cli # <<>>
    /\ \E ok \in BOOLEAN :
           IF ok
           THEN /\ written' =
                       Append(written,
                              IF format = <<Json>> /\ cli[1].output # <<>>
                              THEN "file" ELSE "stdout")
                /\ pc' = "exit"
                /\ error' = error
           ELSE /\ error' = <<IoError("write")>>
                /\ pc' = "failed"
                /\ written' = written
    /\ UNCHANGED <<tree, nr_files, file_index, lines, scan, files_metrics,
                   report, cli, format>>

NextRun ==
    \/ RunValidate
    \/ Next
    \/ RunOutput

SpecRun == InitRun /\ [][NextRun]_vars

(***************************************************************************)
(* What the properties below speak of.                                     *)
(***************************************************************************)
\* A step of the loop of analyze_file: one more line has been processed.
ReadStep == pc = "scan" /\ pc' = "scan" /\ Len(lines') = Len(lines) + 1
\* The line that step processed, raw and trimmed.
NewLine == lines'[Len(lines')]
NewTrimmed == trim(NewLine)

\* analyze_file has returned for the file whose lines are in `lines`.
FileDone == pc \in {"loop", "done"} /\ files_metrics # <<>>
\* The FileMetrics it returned.
Returned == files_metrics[Len(files_metrics)]

\* analyze_project has returned Ok(report).
ReportDone == pc = "done" /\ report # <<>>
TheReport == report[1]

\* The sum of one numeric field over a list of FileMetrics.
RECURSIVE FieldSumTo(_, _, _)
FieldSumTo(files, field, n) ==
    IF n = 0 THEN 0 ELSE FieldSumTo(files, field, n - 1) + files[n][field]
FieldSum(files, field) == FieldSumTo(files, field, Len(files))

(***************************************************************************)
(* C1.  After every prefix of the lines of a file, code_lines equals       *)
(* test_lines + non_test_lines, and so it does in every FileMetrics        *)
(* returned: a line counted as code adds one to exactly one of test_lines  *)
(* and non_test_lines, and a line not counted as code changes neither.     *)
(***************************************************************************)
C1_SplitHolds ==
    /\ scan.code_lines = scan.test_lines + scan.non_test_lines
    /\ \A i \in 1..Len(files_metrics) :
           files_metrics[i].code_lines =
               files_metrics[i].test_lines + files_metrics[i].non_test_lines

C1_SplitStep ==
    ReadStep =>
        LET code == scan'.code_lines - scan.code_lines
            test == scan'.test_lines - scan.test_lines
            non_test == scan'.non_test_lines - scan.non_test_lines
        IN  /\ code \in {0, 1}
            /\ test \in {0, 1}
            /\ non_test \in {0, 1}
            /\ code = test + non_test

\* C1: code_lines = test_lines + non_test_lines always, kept line by line.
C1_CodeLinesSplit == []C1_SplitHolds /\ [][C1_SplitStep]_vars

\* A returned file with code lines of both kinds.
C1_Witness ==
    /\ FileDone
    /\ Returned.test_functions > 0
    /\ Returned.test_lines > 0
    /\ Returned.non_test_lines > 0

(***************************************************************************)
(* C2.  After any prefix of k lines, total_lines = k and total_lines =     *)
(* blank_lines + comment_lines + code_lines; every line read adds one to   *)
(* exactly one of the three, block-comment lines included.                 *)
(***************************************************************************)
C2_TotalHolds ==
    /\ scan.total_lines = Len(lines)
    /\ scan.total_lines =
           scan.blank_lines + scan.comment_lines + scan.code_lines
    /\ \A i \in 1..Len(files_metrics) :
           files_metrics[i].total_lines =
               files_metrics[i].blank_lines + files_metrics[i].comment_lines
                   + files_metrics[i].code_lines

C2_TotalStep ==
    ReadStep =>
        LET blank == scan'.blank_lines - scan.blank_lines
            comment == scan'.comment_lines - scan.comment_lines
            code == scan'.code_lines - scan.code_lines
        IN  /\ scan'.total_lines = scan.total_lines + 1
            /\ blank \in {0, 1} /\ comment \in {0, 1} /\ code \in {0, 1}
            /\ blank + comment + code = 1

\* C2: total_lines counts the lines read and is blank + comment + code.
C2_EveryLineInOneBucket == []C2_TotalHolds /\ [][C2_TotalStep]_vars

\* A file with a code line and a whitespace-only line inside a block comment.
C2_Witness ==
    /\ FileDone
    /\ Returned.code_lines = 1
    /\ Returned.comment_lines = 2
    /\ Returned.blank_lines = 0
    /\ \E k \in 2..Len(lines) :
           /\ starts_with(trim(lines[k - 1]), BlockOpen)
           /\ ~contains(lines[k - 1], BlockClose)
           /\ trim(lines[k]) = <<>>

(***************************************************************************)
(* C3.  non_test_functions = functions - test_functions in every           *)
(* FileMetrics returned (and after every prefix): a declaration line adds  *)
(* one to functions and to exactly one of test_functions and               *)
(* non_test_functions.                                                     *)
(***************************************************************************)
C3_FunctionsHold ==
    /\ scan.non_test_functions = scan.functions - scan.test_functions
    /\ \A i \in 1..Len(files_metrics) :
           files_metrics[i].non_test_functions =
               files_metrics[i].functions - files_metrics[i].test_functions

C3_FunctionsStep ==
    ReadStep =>
        LET fns == scan'.functions - scan.functions
            test == scan'.test_functions - scan.test_functions
            non_test == scan'.non_test_functions - scan.non_test_functions
        IN  /\ fns \in {0, 1} /\ test \in {0, 1} /\ non_test \in {0, 1}
            /\ fns = test + non_test

\* C3: non_test_functions = functions - test_functions, kept line by line.
C3_FunctionsSplit == []C3_FunctionsHold /\ [][C3_FunctionsStep]_vars

\* A returned file with a test function and a function that is none.
C3_Witness ==
    FileDone /\ Returned.test_functions > 0 /\ Returned.non_test_functions > 0

(***************************************************************************)
(* C4.  The totals of a report count its files and carry, for total_lines, *)
(* blank_lines, comment_lines, code_lines, test_functions, test_lines and  *)
(* non_test_lines, the sum of the field over the files of the report.      *)
(***************************************************************************)
SummedFields ==
    { "total_lines", "blank_lines", "comment_lines", "code_lines",
      "test_functions", "test_lines", "non_test_lines" }

\* C4: totals.files and the seven summed totals of every report.
C4_TotalsAreSums ==
    ReportDone =>
        /\ TheReport.files = files_metrics
        /\ TheReport.totals.files = Len(TheReport.files)
        /\ \A f \in SummedFields :
               TheReport.totals[f] = FieldSum(TheReport.files, f)

\* A report over two files that both have test lines.
C4_Witness ==
    /\ ReportDone
    /\ Len(TheReport.files) = 2
    /\ TheReport.files[1].test_lines > 0
    /\ TheReport.files[2].test_lines > 0
    /\ TheReport.files[1].comment_lines > 0

(***************************************************************************)
(* C5.  The totals of a report also carry functions, pub_functions,        *)
(* non_test_functions and todo_count, each the sum of the field over the   *)
(* files of the report, and files_with_main, the number of files whose     *)
(* has_main is set.                                                        *)
(***************************************************************************)
RECURSIVE MainCountTo(_, _)
MainCountTo(files, n) ==
    IF n = 0 THEN 0
    ELSE MainCountTo(files, n - 1) + (IF files[n].has_main THEN 1 ELSE 0)

FunctionFields ==
    { "functions", "pub_functions", "non_test_functions", "todo_count" }

\* C5: the totals carry the function counts, todo_count and files_with_main.
C5_TotalsCarryEveryField ==
    ReportDone =>
        /\ FunctionFields \cup {"files_with_main"}
               \subseteq DOMAIN TheReport.totals
        /\ \A f \in FunctionFields :
               TheReport.totals[f] = FieldSum(TheReport.files, f)
        /\ TheReport.totals.files_with_main =
               MainCountTo(TheReport.files, Len(TheReport.files))

(***************************************************************************)
(* C6.  compute_totals divides only by a non-zero code_lines: the          *)
(* percentage is 100 * test_lines / code_lines of the totals when          *)
(* code_lines > 0 and 0 when code_lines = 0; a report without files has    *)
(* files = 0, every total 0 and a percentage of 0.                         *)
(***************************************************************************)
\* C6: the percentage of every report, and the report without files.
C6_PercentageGuarded ==
    ReportDone =>
        LET totals == TheReport.totals
            pct == totals.test_code_percentage
        IN  /\ pct.den # 0
            /\ totals.code_lines > 0 =>
                   pct.num * totals.code_lines = 100 * totals.test_lines * pct.den
            /\ totals.code_lines = 0 => pct.num = 0
            /\ TheReport.files = <<>> =>
                   /\ totals.files = 0
                   /\ \A f \in SummedFields : totals[f] = 0
                   /\ pct.num = 0

\* A report over files that hold no code line at all.
C6_Witness ==
    /\ ReportDone
    /\ TheReport.files # <<>>
    /\ TheReport.totals.total_lines > 0
    /\ TheReport.totals.code_lines = 0

(***************************************************************************)
(* C7.  The scenario of one test-annotated function and one plain          *)
(* function.  As stated: bodies of 3 and of 2 code lines give functions =  *)
(* 2, test_functions = 1, test_lines = 3, non_test_lines = 2, code_lines = *)
(* 5.  As the code counts: the annotation line, the declaration line and   *)
(* the closing-brace line are code lines too, so these bodies give         *)
(* test_lines = 6, non_test_lines = 4 and code_lines = 10; the figures     *)
(* 3, 2 and 5 are those of the two functions with empty bodies.            *)
(***************************************************************************)
\* C7 as stated: bodies of 3 and 2 code lines give 3, 2 and 5.
C7_ScenarioAsStated ==
    (FileDone /\ IsFile(lines, ScenarioBodies)) =>
        /\ Returned.functions = 2
        /\ Returned.test_functions = 1
        /\ Returned.test_lines = 3
        /\ Returned.non_test_lines = 2
        /\ Returned.code_lines = 5

\* C7 as amended: they give 6, 4 and 10; empty bodies give 3, 2 and 5.
C7_ScenarioAsCounted ==
    /\ (FileDone /\ IsFile(lines, ScenarioBodies)) =>
           /\ Returned.functions = 2
           /\ Returned.test_functions = 1
           /\ Returned.test_lines = 6
           /\ Returned.non_test_lines = 4
           /\ Returned.code_lines = 10
    /\ (FileDone /\ IsFile(lines, ScenarioEmptyBodies)) =>
           /\ Returned.functions = 2
           /\ Returned.test_functions = 1
           /\ Returned.test_lines = 3
           /\ Returned.non_test_lines = 2
           /\ Returned.code_lines = 5

\* analyze_file has returned for a file of the scenario.
C7_Witness == FileDone /\ IsFile(lines, ScenarioBodies) /\ Returned.total_lines = 10

(***************************************************************************)
(* Comment lines and TODO/FIXME occurrences, read off the lines alone.     *)
(***************************************************************************)
\* Whether a block comment is open after the first k lines of ls.
RECURSIVE InBlockAfter(_, _)
InBlockAfter(ls, k) ==
    IF k = 0 THEN FALSE
    ELSE IF InBlockAfter(ls, k - 1)
         THEN ~contains(ls[k], BlockClose)
         ELSE starts_with(trim(ls[k]), BlockOpen)
                  /\ ~contains(ls[k], BlockClose)

\* Line k is a block-comment line: inside a block comment or starting one.
IsBlockCommentLine(ls, k) ==
    InBlockAfter(ls, k - 1) \/ starts_with(trim(ls[k]), BlockOpen)

\* Line k is a comment line: a block-comment line or a "//" line.
IsCommentLine(ls, k) ==
    IsBlockCommentLine(ls, k) \/ starts_with(trim(ls[k]), LineComment)

\* The places of line s where "todo" or "fixme" starts, in any letter case.
RECURSIVE OccurrencesFrom(_, _)
OccurrencesFrom(lower, i) ==
    IF i > Len(lower) THEN 0
    ELSE LET rest == SubSeq(lower, i, Len(lower))
         IN  (IF starts_with(rest, Todo) THEN 1 ELSE 0)
                 + (IF starts_with(rest, Fixme) THEN 1 ELSE 0)
                 + OccurrencesFrom(lower, i + 1)
Occurrences(s) == OccurrencesFrom(to_lowercase(s), 1)

RECURSIVE SumTo(_, _)
SumTo(f, n) == IF n = 0 THEN 0 ELSE SumTo(f, n - 1) + f[n]

HoldsTodo(s) == contains(to_lowercase(s), Todo)

C9_TodoStep ==
    ReadStep =>
        /\ ((scan.in_block_comment \/ starts_with(NewTrimmed, BlockOpen))
                /\ HoldsTodo(NewLine))
               => scan'.todo_count = scan.todo_count + 1
        /\ (scan'.code_lines = scan.code_lines + 1 /\ HoldsTodo(NewLine))
               => scan'.todo_count = scan.todo_count

\* C9: TODO counts on block-comment lines and never on code lines.
C9_TodoOnlyInComments == [][C9_TodoStep]_vars

\* "x; // TODO" as code, "/* TODO" opening a block, "// Todo" inside it.
C9_Witness ==
    /\ pc = "scan"
    /\ lines = <<L_stmt_todo, L_open_todo, L_todo_lc>>
    /\ scan.code_lines = 1
    /\ scan.todo_count = 2

(***************************************************************************)
(* C10.  Once a line starting with "/*" and holding no "*/" has been read  *)
(* and no later line holds "*/": in_block_comment is set; every further    *)
(* line without "*/" adds one to comment_lines and changes nothing else    *)
(* but total_lines and todo_count; the end of the file can be taken at     *)
(* any point, and analyze_file then returns its FileMetrics.               *)
(***************************************************************************)
\* Some line of ls opens a block comment that no later line of ls closes.
Unterminated(ls) ==
    \E k \in 1..Len(ls) :
        /\ starts_with(trim(ls[k]), BlockOpen)
        /\ \A j \in k..Len(ls) : ~contains(ls[j], BlockClose)

C10_StaysOpen ==
    /\ (pc = "scan" /\ Unterminated(lines)) =>
           scan.in_block_comment /\ ENABLED EndOfFile
    /\ (FileDone /\ Unterminated(lines)) =>
           /\ scan.in_block_comment
           /\ Returned = file_metrics(scan, Returned.path)
           /\ Returned.total_lines = Len(lines)

C10_CommentOnlyStep ==
    (ReadStep /\ Unterminated(lines) /\ ~contains(NewLine, BlockClose)) =>
        /\ scan'.in_block_comment
        /\ scan'.comment_lines = scan.comment_lines + 1
        /\ scan' = [scan EXCEPT !.total_lines = scan'.total_lines,
                                !.comment_lines = scan'.comment_lines,
                                !.todo_count = scan'.todo_count]

\* C10: an unterminated block comment swallows the rest of the file.
C10_UnterminatedBlockComment ==
    []C10_StaysOpen /\ [][C10_CommentOnlyStep]_vars

\* A file returned with its block comment still open over a blank line and
\* a declaration line.
C10_Witness ==
    /\ FileDone
    /\ Unterminated(lines)
    /\ Len(lines) = 3
    /\ lines[1] = L_open
    /\ trim(lines[2]) = <<>>
    /\ is_fn_line(trim(lines[3]))
    /\ Returned.comment_lines = 3

(***************************************************************************)
(* C11. Nothing in the text of a file makes analyze_file fail: after any   *)
(* lines whatever, with brace_depth below zero, a block comment left open  *)
(* or a test attribute waiting, the end of the file returns Ok, and the    *)
(* FileMetrics returned keeps the three sums.                              *)
(***************************************************************************)
C11_Sums(m) ==
    /\ m.code_lines = m.test_lines + m.non_test_lines
    /\ m.total_lines = m.blank_lines + m.comment_lines + m.code_lines
    /\ m.functions = m.test_functions + m.non_test_functions

\* C11: whatever lines were read, also with brace_depth negative, a block comment open or a test attribute dangling, analyze_file can return Ok at the end of the file and the FileMetrics returned satisfies code = test + non_test, total = blank + comment + code and functions = test + non_test functions.
C11_NeverAnError ==
    /\ pc = "scan" => ENABLED EndOfFile
    /\ pc = "scan" => C11_Sums(file_metrics(scan, nr_files[file_index]))
    /\ FileDone => C11_Sums(Returned) /\ Returned.total_lines = Len(lines)

\* A file returned Ok with all three at once: "}" then "#[test]" then "/*".
C11_Witness ==
    /\ FileDone
    /\ scan.brace_depth < 0
    /\ scan.in_block_comment
    /\ scan.pending_test_attr
    /\ C11_Sums(Returned)

(***************************************************************************)
(* C12. A file that cannot be opened or read ends the whole run with an    *)
(* error: no report, not even of the files analysed before it.  The        *)
(* error is the io::Error as ? converted it (file.rs:81 and 105,           *)
(* analysis/project.rs:57: no context is attached on the way up), so it    *)
(* names no path.                                                          *)
(***************************************************************************)
\* analyze_project has returned the error of a failed open or read.
IoFailed ==
    pc = "failed" /\ error # <<>> /\ error[1].source \in {"open", "read"}

\* C12: when opening or reading a discovered file fails, analyze_project returns an error and no MetricsReport, the metrics of earlier files are not returned, and the error identifies the path of the file that failed.
C12_FailureNamesTheFile ==
    IoFailed =>
        /\ report = <<>>
        /\ files_metrics = <<>>
        /\ nr_files[file_index] \in error[1].names

(***************************************************************************)
(* C13. The report lists the .nr files of the tree, each once, in the      *)
(* order of their paths, whatever order the walk met them in.              *)
(***************************************************************************)
DotNr == <<".", "n", "r">>

\* The paths of the regular files under the root named <stem>.nr.
C13_Discovered ==
    { e.path : e \in { x \in tree :
                         /\ x.is_file
                         /\ Len(file_name(x.path)) > Len(DotNr)
                         /\ ends_with(file_name(x.path), DotNr) } }

\* C13: report.files holds exactly one FileMetrics per discovered .nr file (none missing, none twice, none for another kind of entry), in strictly ascending path order, and totals.files equals the length of report.files.
C13_OnePerFileInOrder ==
    /\ pc \in {"loop", "scan"} =>
           /\ Len(files_metrics) = file_index - 1
           /\ \A i \in 1..Len(files_metrics) :
                  files_metrics[i].path = nr_files[i]
    /\ ReportDone =>
           LET files == TheReport.files
           IN  /\ { files[i].path : i \in 1..Len(files) } = C13_Discovered
               /\ Len(files) = Cardinality(C13_Discovered)
               /\ \A i, j \in 1..Len(files) :
                      i < j => path_less(files[i].path, files[j].path)
               /\ TheReport.totals.files = Len(files)

\* The report of the tree of three .nr files in two directories.
C13_Witness ==
    /\ ReportDone
    /\ Len(TheReport.files) = 3
    /\ Cardinality(C13_Discovered) = 3
    /\ TheReport.files[1].path = <<N_src, N_foo_test_nr>>
    /\ TheReport.files[3].path = <<N_test, N_main_nr>>

(***************************************************************************)
(* C14. The FileMetrics of a file is a function of its lines and its path: *)
(* it is what a scan of those lines computes from the initial locals,      *)
(* whatever files were analysed before it.                                 *)
(***************************************************************************)
\* The locals after lines 1..n of ls, from a fresh start.
RECURSIVE ScanOfTo(_, _)
ScanOfTo(ls, n) ==
    IF n = 0 THEN ScanInit
    ELSE LET before == count_line(ScanOfTo(ls, n - 1))
             trimmed == trim(ls[n])
         IN  IF before.in_block_comment
             THEN block_comment_line(before, trimmed)
             ELSE IF starts_with(trimmed, BlockOpen)
             THEN block_comment_start(before, trimmed)
             ELSE ordinary_line(before, ls[n])
ScanOf(ls) == ScanOfTo(ls, Len(ls))

\* What analyze_file returns is the record of a fresh scan of the lines read.
C14_ResultOfFold ==
    (pc = "loop" /\ files_metrics # <<>>) =>
        Returned = file_metrics(ScanOf(lines), nr_files[Len(files_metrics)])

\* Opening a file starts the counters and the four cross-line variables
\* afresh, whatever the file before left in them.
C14_FreshStart ==
    (pc = "loop" /\ pc' = "scan") =>
        /\ scan' = ScanInit
        /\ lines' = <<>>
        /\ files_metrics' = files_metrics

\* C14: the FileMetrics returned for a file is determined by its line sequence and its path alone: it equals the result of scanning those lines from freshly initialised locals, so the same content gives the same result again, and every file starts with fresh counters and cross-line variables whatever files were scanned before.
C14_FunctionOfContent ==
    []C14_ResultOfFold /\ [][C14_FreshStart]_vars

\* The second file of a project returned after the first one ended inside a
\* block comment ("/*" alone), with a pending attribute in the second.
C14_Witness ==
    /\ FileDone
    /\ Len(files_metrics) = 2
    /\ files_metrics[1].total_lines = 1
    /\ files_metrics[1].comment_lines = 1
    /\ files_metrics[1].todo_count = 0
    /\ lines = <<L_attr, L_stmt_todo>>
    /\ Returned.test_lines = 1
    /\ Returned.non_test_lines = 1
    /\ Returned.comment_lines = 0

(***************************************************************************)
(* C15. is_test_file is decided by the relative path.                      *)
(***************************************************************************)
\* The rule on the components of a relative path.
C15_TestPath(p) ==
    LET name == p[Len(p)]
        from == Len(name) - Len(TestSuffix)
    IN  \/ \E i \in 1..Len(p) : p[i] = N_tests \/ p[i] = N_test
        \/ from >= 0 /\ \A k \in 1..Len(TestSuffix) :
                            name[from + k] = TestSuffix[k]

\* The .nr files of the trees above, each with what the rule gives for it.
C15_Table ==
    { <<<<N_src, N_main_nr>>, FALSE>>,
      <<<<N_src, N_tests, N_util_nr>>, TRUE>>,
      <<<<N_src, N_foo_test_nr>>, TRUE>>,
      <<<<N_src, N_latest_nr>>, FALSE>>,
      <<<<N_test, N_main_nr>>, TRUE>> }

\* C15: is_test_file of a returned FileMetrics depends on the relative path only: it is true exactly when some component is exactly "tests" or "test" or the file name ends in "_test.nr", whatever the file contains; a sibling file with neither is false.
C15_TestFileByPath ==
    \A i \in 1..Len(files_metrics) :
        LET m == files_metrics[i]
        IN  /\ m.is_test_file = C15_TestPath(m.path)
            /\ <<m.path, m.is_test_file>> \in C15_Table

\* src/foo_test.nr holding a plain statement is a test file, its sibling
\* src/latest.nr holding "#[test]" is not, test/main.nr is.
C15_Witness ==
    /\ ReportDone
    /\ Len(TheReport.files) = 3
    /\ TheReport.files[1].is_test_file
    /\ TheReport.files[1].non_test_lines = 1
    /\ ~TheReport.files[2].is_test_file
    /\ TheReport.files[2].test_lines = 1
    /\ TheReport.files[3].is_test_file
    /\ TheReport.files[3].path = <<N_test, N_main_nr>>

(***************************************************************************)
(* C16. has_main is set by a declaration line spelled `fn main(` or        *)
(* `pub fn main(` (file.rs:161): a declaration of main written with a      *)
(* space before the parenthesis is counted as a function and not as main.  *)
(***************************************************************************)
N_main == <<"m", "a", "i", "n">>

\* The start of s up to its first c, all of s when it holds none.
RECURSIVE UpTo(_, _)
UpTo(s, c) ==
    IF s = <<>> \/ Head(s) = c THEN <<>>
    ELSE <<Head(s)>> \o UpTo(Tail(s), c)

\* What follows "fn " or "pub fn " on a declaration line.
Signature(trimmed) ==
    LET skip == IF starts_with(trimmed, PubFnPrefix)
                THEN Len(PubFnPrefix) ELSE Len(FnPrefix)
    IN  SubSeq(trimmed, skip + 1, Len(trimmed))

\* Line k of ls is a function-declaration line outside block comments.
IsDeclaration(ls, k) ==
    ~IsBlockCommentLine(ls, k) /\ is_fn_line(trim(ls[k]))

\* Line k declares a function named main: the name before the parameter
\* list, with or without white space between the two, is main.
DeclaresMain(ls, k) ==
    /\ IsDeclaration(ls, k)
    /\ trim(UpTo(Signature(trim(ls[k])), "(")) = N_main

\* Line k declares it with the parenthesis right after the name.
DeclaresMainParen(ls, k) ==
    /\ IsDeclaration(ls, k)
    /\ UpTo(Signature(trim(ls[k])), "(") = N_main
    /\ Len(Signature(trim(ls[k]))) > Len(N_main)

C17_EmptyFile ==
    (FileDone /\ lines = <<>>) =>
        Returned =
            [ path |-> nr_files[Len(files_metrics)],
              is_test_file |-> C15_TestPath(nr_files[Len(files_metrics)]),
              total_lines |-> 0, blank_lines |-> 0, comment_lines |-> 0,
              code_lines |-> 0, test_functions |-> 0, test_lines |-> 0,
              non_test_lines |-> 0, functions |-> 0, pub_functions |-> 0,
              non_test_functions |-> 0, has_main |-> FALSE, todo_count |-> 0 ]

\* The empty src/tests/util.nr, a test file, returned after a src/main.nr
\* of two lines.
C17_Witness ==
    /\ FileDone
    /\ lines = <<>>
    /\ Len(files_metrics) = 2
    /\ files_metrics[1].total_lines = 2
    /\ Returned.is_test_file
    /\ Returned.total_lines = 0
    /\ ~Returned.has_main

(***************************************************************************)
(* C18. pending_test_attr is set by a test-annotation line (file.rs:138-   *)
(* 141) and cleared only by a function-declaration line (152-156): blank,  *)
(* comment and other code lines in between leave it set.                   *)
(***************************************************************************)
\* Line k of ls is a code line: not blank, not a comment line.
IsCodeLine(ls, k) == ~IsCommentLine(ls, k) /\ trim(ls[k]) # <<>>

\* Line k of ls is a recognised test annotation.
IsAttrLine(ls, k) ==
    ~IsBlockCommentLine(ls, k) /\ is_test_attr_line(trim(ls[k]))

\* The last code line of ls, 0 when it has none.
LastCodeLine(ls) ==
    LET code == { k \in 1..Len(ls) : IsCodeLine(ls, k) }
    IN  IF code = {} THEN 0 ELSE CHOOSE k \in code : \A j \in code : j <= k

\* An annotation at or after line `from` waits at the end of line `upto`: no
\* declaration has followed it.
AttrWaits(ls, from, upto) ==
    \E k \in from..upto :
        /\ IsAttrLine(ls, k)
        /\ \A j \in (k + 1)..upto : ~IsDeclaration(ls, j)

\* C18 as stated: at every point of the scan pending_test_attr is true exactly when the immediately preceding code line was a recognised test annotation not yet consumed by a function declaration, so a declaration separated from the annotation by another code line is not counted as a test.
C18_PendingAsStated ==
    (pc = "scan" \/ FileDone) =>
        (scan.pending_test_attr <=>
            /\ LastCodeLine(lines) > 0
            /\ IsAttrLine(lines, LastCodeLine(lines)))

\* The flag is set exactly while an annotation waits for a declaration.
C18_PendingWaits ==
    (pc = "scan" \/ FileDone) =>
        (scan.pending_test_attr <=> AttrWaits(lines, 1, Len(lines)))

\* A declaration read while an annotation waits is a test function and
\* consumes the annotation, whatever lines lie between the two; any other
\* declaration is none.
C18_DeclarationStep ==
    (ReadStep /\ IsDeclaration(lines', Len(lines'))) =>
        /\ ~scan'.pending_test_attr
        /\ scan'.test_functions =
               scan.test_functions
                   + (IF AttrWaits(lines, 1, Len(lines)) THEN 1 ELSE 0)

\* C18: at every point of the scan pending_test_attr is true exactly when a test-annotation line has been read and no function-declaration line has been read since; other code lines, blank lines and comments in between do not clear it, so the next declaration is counted as a test function even when another code line separates it from the annotation.
C18_PendingUntilDeclaration ==
    []C18_PendingWaits /\ [][C18_DeclarationStep]_vars

\* "#[test]", "x;", "fn f() {": the declaration is a test function.
C18_Witness ==
    /\ FileDone
    /\ lines = <<L_attr, L_stmt, L_fn>>
    /\ ScanOfTo(lines, 2).pending_test_attr
    /\ Returned.test_functions = 1
    /\ Returned.non_test_functions = 0

(***************************************************************************)
(* C19. An annotation marks the next declaration, and only that one.       *)
(***************************************************************************)
\* Line k of ls is a declaration with at least one annotation line between
\* it and the declaration before it (or the start of the file).
IsTestDeclaration(ls, k) ==
    /\ IsDeclaration(ls, k)
    /\ \E j \in 1..(k - 1) :
           /\ IsAttrLine(ls, j)
           /\ \A i \in (j + 1)..(k - 1) : ~IsDeclaration(ls, i)

\* The three function counters against a count over the lines read.
C19_Counted ==
    /\ pc = "scan" =>
           LET decls == { k \in 1..Len(lines) : IsDeclaration(lines, k) }
               tests == { k \in decls : IsTestDeclaration(lines, k) }
           IN  /\ scan.test_functions = Cardinality(tests)
               /\ scan.non_test_functions = Cardinality(decls \ tests)
               /\ scan.functions = Cardinality(decls)
    /\ FileDone =>
           /\ Returned.test_functions = scan.test_functions
           /\ Returned.non_test_functions = scan.non_test_functions
           /\ Returned.functions = scan.functions

\* C19: test_functions equals the number of function-declaration lines outside block comments that have at least one test-annotation line between them and the previous declaration line or the start of the file; several annotations before one declaration give one test function, and every other declaration, such as the one after a test function with no new annotation, is counted in non_test_functions.
C19_NextDeclarationOnly == []C19_Counted

\* Two annotations, a one-line test function, then a function with no
\* annotation of its own: one test function, one other.
C19_Witness ==
    /\ FileDone
    /\ lines = <<L_attr, L_attr, L_fn_oneline, L_pub_fn, L_rbrace>>
    /\ Returned.test_functions = 1
    /\ Returned.non_test_functions = 1
    /\ Returned.functions = 2

(***************************************************************************)
(* C20. The extent of a test function.  The declaration line sets          *)
(* inside_test and brace_depth = 0 (file.rs:152-156); at the end of every  *)
(* ordinary line inside_test is cleared when brace_depth is 0 (184-189),   *)
(* the declaration line itself included.                                   *)
(***************************************************************************)
\* The last test-function declaration of ls, 0 when it has none.
LastTestDeclaration(ls) ==
    LET tests == { k \in 1..Len(ls) : IsTestDeclaration(ls, k) }
    IN  IF tests = {} THEN 0 ELSE CHOOSE k \in tests : \A j \in tests : j <= k

\* The braces of lines from..upto of ls, block-comment lines left out.
RECURSIVE BracesBetween(_, _, _)
BracesBetween(ls, from, upto) ==
    IF upto < from THEN 0
    ELSE BracesBetween(ls, from, upto - 1)
             + (IF IsBlockCommentLine(ls, upto) THEN 0
                ELSE count_braces(ls[upto]))

\* The function declared on line k has its opening brace on or before line
\* e, and the depth counted from line k is back at zero at the end of e.
BodyClosedAt(ls, k, e) ==
    /\ \E o \in k..e :
           ~IsBlockCommentLine(ls, o) /\ contains(ls[o], <<"{">>)
    /\ BracesBetween(ls, k, e) = 0

\* The line that closes the function declared on line k, or the last line
\* read when none has yet.
BodyEnd(ls, k) ==
    LET closing == { e \in k..Len(ls) : BodyClosedAt(ls, k, e) }
    IN  IF closing = {} THEN Len(ls)
        ELSE CHOOSE e \in closing : \A j \in closing : e <= j

\* C20: from the declaration line of a test function on, brace_depth counts from zero the braces of that line and the following ones, every code line from the declaration line through the line on which brace_depth first returns to zero after the function's opening line is counted in test_lines, and inside_test is cleared at that line and not before, also when the opening brace stands on a line after the declaration.
C20_TestBodyExtent ==
    ((pc = "scan" \/ FileDone) /\ LastTestDeclaration(lines) > 0) =>
        LET k == LastTestDeclaration(lines)
        IN  /\ scan.brace_depth = BracesBetween(lines, k, Len(lines))
            /\ scan.inside_test <=>
                   ~\E e \in k..Len(lines) : BodyClosedAt(lines, k, e)
            /\ \A j \in k..BodyEnd(lines, k) :
                   IsCodeLine(lines, j) =>
                       ScanOfTo(lines, j).test_lines =
                           ScanOfTo(lines, j - 1).test_lines + 1

(***************************************************************************)
(* C21. An annotation that no declaration follows.                         *)
(***************************************************************************)
\* Reading an annotation line counts one code line, a test line, and no
\* function of any kind.
C21_AnnotationStep ==
    (ReadStep /\ IsAttrLine(lines', Len(lines'))) =>
        /\ scan'.code_lines = scan.code_lines + 1
        /\ scan'.test_lines = scan.test_lines + 1
        /\ scan'.non_test_lines = scan.non_test_lines
        /\ scan'.functions = scan.functions
        /\ scan'.test_functions = scan.test_functions
        /\ scan'.non_test_functions = scan.non_test_functions
        /\ scan'.pending_test_attr

\* With the annotation still waiting, the end of the file returns Ok; a file
\* of annotations and no declaration has no function and as many test
\* lines, at least, as annotations.
C21_Discarded ==
    /\ (pc = "scan" /\ scan.pending_test_attr) => ENABLED EndOfFile
    /\ (FileDone /\ \A k \in 1..Len(lines) : ~IsDeclaration(lines, k)) =>
           /\ Returned.functions = 0
           /\ Returned.test_functions = 0
           /\ Returned.test_lines >=
                  Cardinality({ k \in 1..Len(lines) : IsAttrLine(lines, k) })
           /\ Returned.test_lines <= Returned.code_lines

\* C21: a test annotation followed by no function declaration before the end of the file is discarded: it increments neither test_functions nor functions and causes no error, while its own line is a code line counted in test_lines and not in non_test_lines, so a result with test_lines > 0 and test_functions = 0 is reachable.
C21_DanglingAnnotation ==
    []C21_Discarded /\ [][C21_AnnotationStep]_vars

\* A statement and then an annotation at the end of the file: one test
\* line, no test function.
C21_Witness ==
    /\ FileDone
    /\ lines = <<L_stmt, L_attr>>
    /\ scan.pending_test_attr
    /\ Returned.test_lines = 1
    /\ Returned.non_test_lines = 1
    /\ Returned.test_functions = 0
    /\ Returned.functions = 0

(***************************************************************************)
(* C22. What a block-comment line leaves alone.                            *)
(***************************************************************************)
\* The step reads a line handled by one of the two block-comment branches.
C22_BlockCommentLineRead ==
    ReadStep /\ (scan.in_block_comment \/ starts_with(NewTrimmed, BlockOpen))

\* C22: a line handled as a block-comment line (read while in_block_comment is set, or starting with "/*" after trim) adds one to total_lines and to comment_lines, at most one to todo_count, and leaves every other counter, has_main, pending_test_attr, inside_test and brace_depth unchanged, whatever the line looks like; after it in_block_comment is false exactly when the line contains "*/".
C22_BlockCommentFrame ==
    [][C22_BlockCommentLineRead =>
          /\ scan' = [scan EXCEPT
                          !.total_lines = @ + 1,
                          !.comment_lines = @ + 1,
                          !.todo_count = scan'.todo_count,
                          !.in_block_comment = ~contains(NewLine, BlockClose)]
          /\ scan'.todo_count \in { scan.todo_count, scan.todo_count + 1 }
      ]_vars

\* Inside a block comment opened after a pending annotation, a line that
\* looks like a declaration with a brace was read: no function, depth zero,
\* the annotation still pending.
C22_Witness ==
    /\ pc = "scan"
    /\ lines = <<L_attr, L_open, L_fn>>
    /\ scan.in_block_comment
    /\ scan.comment_lines = 2
    /\ scan.functions = 0
    /\ scan.brace_depth = 0
    /\ scan.pending_test_attr
    /\ scan.code_lines = 1

(***************************************************************************)
(* C23. compute_totals on the files of a report taken in another order,    *)
(* and on the two parts of a split of them.                                *)
(***************************************************************************)
\* The integer fields of ProjectTotals.
IntegerFields == SummedFields \cup { "files" }

\* The integer fields of a ProjectTotals.
IntegerTotals(totals) == [f \in IntegerFields |-> totals[f]]

\* The entries of files at the places in keep, in their order.
RECURSIVE SubList(_, _, _)
SubList(files, keep, n) ==
    IF n = 0 THEN <<>>
    ELSE SubList(files, keep, n - 1)
             \o (IF n \in keep THEN <<files[n]>> ELSE <<>>)

\* compute_totals gives the same integers for every order of the files.
C23_OrderIndependent ==
    ReportDone =>
        LET files == TheReport.files
            places == 1..Len(files)
        IN  \A order \in Permutations(places) :
                IntegerTotals(compute_totals([i \in places |-> files[order[i]]]))
                    = IntegerTotals(TheReport.totals)

\* The integers of the whole are the sums of those of the two parts.
C23_Mergeable ==
    ReportDone =>
        LET files == TheReport.files
            places == 1..Len(files)
        IN  \A keep \in SUBSET places :
                LET one == compute_totals(SubList(files, keep, Len(files)))
                    other == compute_totals(
                                 SubList(files, places \ keep, Len(files)))
                IN  \A f \in IntegerFields :
                        TheReport.totals[f] = one[f] + other[f]

\* C23: compute_totals is order-independent and mergeable: every permutation of the FileMetrics of a report gives the same integer totals, and the integer totals of the list are the field-wise sums of the totals of the two parts of any split of the list into two sublists.
C23_OrderAndMerge == [](C23_OrderIndependent /\ C23_Mergeable)

\* A report over three files that differ: a blank line, a code line, a
\* comment line.
C23_Witness ==
    /\ ReportDone
    /\ Len(TheReport.files) = 3
    /\ TheReport.files[1].blank_lines = 1
    /\ TheReport.files[2].code_lines = 1
    /\ TheReport.files[3].comment_lines = 1
    /\ TheReport.totals.total_lines = 3

(***************************************************************************)
(* C24. inside_test is set by a test declaration and cleared at the end of *)
(* an ordinary line whose brace_depth is 0 (file.rs:187-189), nowhere      *)
(* else.  A declaration without annotation read inside a test body does    *)
(* not reset brace_depth; when its own braces bring a negative depth back  *)
(* to 0, the test body ends on the declaration line.                       *)
(***************************************************************************)
\* Line k of ls is a declaration without pending annotation read while
\* inside_test is set.
IsDeclarationInsideTest(ls, k) ==
    /\ IsDeclaration(ls, k)
    /\ ScanOfTo(ls, k - 1).inside_test
    /\ ~ScanOfTo(ls, k - 1).pending_test_attr
    /\ ~IsAttrLine(ls, k)

\* C24 as stated: inside_test is cleared only at the end of a line on which brace_depth is exactly zero; a declaration with no pending annotation met while inside_test is set (nested, or after closing braces made brace_depth negative) is counted in non_test_functions while its code lines, from the declaration through the end of its body, are counted in test_lines.
C24_NestedAsStated ==
    (pc = "scan" \/ FileDone) =>
        /\ scan.inside_test => scan.brace_depth # 0
        /\ \A k \in 1..Len(lines) :
               IsDeclarationInsideTest(lines, k) =>
                   /\ ScanOfTo(lines, k).non_test_functions =
                          ScanOfTo(lines, k - 1).non_test_functions + 1
                   /\ \A j \in k..BodyEnd(lines, k) :
                          IsCodeLine(lines, j) =>
                              ScanOfTo(lines, j).test_lines =
                                  ScanOfTo(lines, j - 1).test_lines + 1

\* While inside_test is set brace_depth is not zero.
C24_InsideMeansOpen ==
    (pc = "scan" \/ FileDone) => (scan.inside_test => scan.brace_depth # 0)

\* inside_test is cleared by ordinary lines only, those that end at depth
\* zero; every code line read while it is set is a test line; a declaration
\* without annotation read while it is set is a non-test function that keeps
\* the running brace_depth.
C24_InsideStep ==
    (ReadStep /\ scan.inside_test) =>
        /\ ~scan'.inside_test =>
               /\ ~IsBlockCommentLine(lines', Len(lines'))
               /\ scan'.brace_depth = 0
        /\ IsCodeLine(lines', Len(lines')) =>
               /\ scan'.test_lines = scan.test_lines + 1
               /\ scan'.non_test_lines = scan.non_test_lines
        /\ (IsDeclaration(lines', Len(lines')) /\ ~scan.pending_test_attr) =>
               /\ scan'.non_test_functions = scan.non_test_functions + 1
               /\ scan'.test_functions = scan.test_functions
               /\ scan'.brace_depth = scan.brace_depth + count_braces(NewLine)
               /\ scan'.inside_test <=> scan'.brace_depth # 0

\* C24: inside_test is cleared only at the end of an ordinary line on which brace_depth is exactly zero; a declaration with no pending annotation met while inside_test is set is counted in non_test_functions, its brace_depth is not reset, and its declaration line and the code lines after it are counted in test_lines for as long as inside_test stays set, which ends on the declaration line itself when its braces bring brace_depth to zero; inside_test can stay set until the end of the file.
C24_ClearedAtZeroOnly ==
    []C24_InsideMeansOpen /\ [][C24_InsideStep]_vars

\* After "}}}" closed the test function at depth -2, `pub fn g() {` and its
\* body were read inside the test: a non-test function, all six lines test
\* lines, and the file ends with inside_test set.
C24_Witness ==
    /\ FileDone
    /\ lines = <<L_attr, L_fn, L_rbrace3, L_pub_fn, L_stmt, L_rbrace>>
    /\ scan.inside_test
    /\ scan.brace_depth = -2
    /\ Returned.test_functions = 1
    /\ Returned.non_test_functions = 1
    /\ Returned.test_lines = 6
    /\ Returned.non_test_lines = 0

(***************************************************************************)
(* C25. The sums of the files carry over to the totals of the report.      *)
(***************************************************************************)
\* C25: in the totals of every report code_lines = test_lines + non_test_lines and total_lines = blank_lines + comment_lines + code_lines, hence test_lines <= code_lines, and test_code_percentage lies between 0 and 100.
C25_TotalsKeepTheSums ==
    ReportDone =>
        LET totals == TheReport.totals
            pct == totals.test_code_percentage
        IN  /\ totals.code_lines = totals.test_lines + totals.non_test_lines
            /\ totals.total_lines =
                   totals.blank_lines + totals.comment_lines + totals.code_lines
            /\ totals.test_lines <= totals.code_lines
            /\ pct.den > 0
            /\ 0 <= pct.num
            /\ pct.num <= 100 * pct.den

\* A report over two files with test lines and other code lines in both: a
\* percentage strictly between 0 and 100.
C25_Witness ==
    /\ ReportDone
    /\ Len(TheReport.files) = 2
    /\ TheReport.files[1].test_lines > 0
    /\ TheReport.files[2].non_test_lines > 0
    /\ TheReport.totals.blank_lines > 0
    /\ TheReport.totals.test_code_percentage.num > 0
    /\ TheReport.totals.test_code_percentage.num <
           100 * TheReport.totals.test_code_percentage.den

(***************************************************************************)
(* C26. run checks the output flags before it analyses or writes.          *)
(***************************************************************************)
\* The flags run was started with.
TheArgs == cli[1]
FormatGiven == TheArgs.format # <<>>
OutputGiven == TheArgs.output # <<>>

\* The format the flags ask for: JSON for --json or --format json, else the
\* value of --format, else Human.
C26_Expected ==
    IF TheArgs.json \/ TheArgs.format = <<Json>> THEN Json
    ELSE IF FormatGiven THEN TheArgs.format[1]
    ELSE Human

\* The two combinations run rejects.
C26_Rejected ==
    \/ FormatGiven /\ TheArgs.json
    \/ OutputGiven /\ C26_Expected # Json

\* C26: run validates the output flags before any analysis or output: with both --format and --json, or with --output and a resolved format that is not JSON, it fails without analysing the project and without writing anything; otherwise the resolved format is JSON if --json or --format json was given, the given --format value if one was given, and Human by default, and the report is written in that format.
C26_FlagsFirst ==
    /\ (C26_Rejected /\ pc # "run") =>
           /\ pc = "failed"
           /\ error # <<>>
           /\ written = <<>>
           /\ format = <<>>
           /\ nr_files = <<>> /\ lines = <<>> /\ files_metrics = <<>>
           /\ report = <<>>
    /\ (~C26_Rejected /\ pc # "run") =>
           /\ format = <<C26_Expected>>
           /\ pc \in {"from_root", "nr_files"} =>
                  written = (IF TheArgs.verbose THEN <<"stderr">> ELSE <<>>)
           /\ pc = "exit" =>
                  /\ report # <<>>
                  /\ written[Len(written)] =
                         (IF OutputGiven THEN "file" ELSE "stdout")
    /\ pc = "run" =>
           written = <<>> /\ nr_files = <<>> /\ report = <<>>

\* --format human with --output, on a project that would analyse well: run
\* has failed and nothing was read or written.
C26_Witness ==
    /\ pc = "failed"
    /\ tree = TreeSingle
    /\ TheArgs.format = <<Human>>
    /\ ~TheArgs.json
    /\ OutputGiven
    /\ TheArgs.verbose
    /\ error = <<RunError>>
    /\ written = <<>>
    /\ nr_files = <<>>

====
